---- MODULE Spec2Model ----
(***************************************************************************)
(* Model of the email-verified polling service of src/app.py: the          *)
(* rate-limited create_poll and vote handlers, the signed confirmation     *)
(* token (itsdangerous URLSafeTimedSerializer), and confirm_vote run as a  *)
(* sequence of SQLite statements by several concurrent requests.           *)
(*                                                                         *)
(* Text is modelled as a sequence of one-character strings, so that        *)
(* strip(), lower(), isdigit() and the e-mail pattern are computed.        *)
(* Time is in whole seconds.                                               *)
(***************************************************************************)
EXTENDS Integers, Sequences, FiniteSets, TLC

\* ------------------------------------------------------------------ bounds
\* number of clock advances explored
MaxTicks == 2
\* number of create_poll and vote requests explored
MaxCalls == 3
\* number of confirm_vote requests that may be in flight together
MaxReq == 2
\* number of check_rate_limit calls (a burst counts once) explored
MaxRateCalls == 4

\* --------------------------------------------------------- program constants
\* serializer.loads(..., max_age=3600)
MaxAge == 3600
\* check_rate_limit(endpoint, max_attempts=50, time_window=300)
MaxAttempts == 50
TimeWindow == 300
\* expire_date = datetime.now() + timedelta(days=30)
PollLifetime == 30 * 86400
\* sanitize_input(question, max_length=500), sanitize_input(opt, max_length=200)
QuestionMaxLen == 500
OptionMaxLen == 200
\* len(question) < 10, len(cleaned) >= 2, len(options) < 2, len(options) > 10
QuestionMinLen == 10
OptionMinLen == 2
MinOptions == 2
MaxOptions == 10
\* salt='email-confirm-v2'
ConfirmSalt == "email-confirm-v2"

\* ------------------------------------------------------------------- text
UpperCase == {"A", "B", "C", "D", "E", "F", "G", "H", "I", "J", "K", "L", "M",
              "N", "O", "P", "Q", "R", "S", "T", "U", "V", "W", "X", "Y", "Z"}
LowerCase == {"a", "b", "c", "d", "e", "f", "g", "h", "i", "j", "k", "l", "m",
              "n", "o", "p", "q", "r", "s", "t", "u", "v", "w", "x", "y", "z"}
Digits == {"0", "1", "2", "3", "4", "5", "6", "7", "8", "9"}
WhiteSpace == {" "}

\* str.lower() on one character
LowerChar(c) ==
    CASE c = "A" -> "a" [] c = "B" -> "b" [] c = "C" -> "c" [] c = "D" -> "d"
      [] c = "E" -> "e" [] c = "F" -> "f" [] c = "G" -> "g" [] c = "H" -> "h"
      [] c = "I" -> "i" [] c = "J" -> "j" [] c = "K" -> "k" [] c = "L" -> "l"
      [] c = "M" -> "m" [] c = "N" -> "n" [] c = "O" -> "o" [] c = "P" -> "p"
      [] c = "Q" -> "q" [] c = "R" -> "r" [] c = "S" -> "s" [] c = "T" -> "t"
      [] c = "U" -> "u" [] c = "V" -> "v" [] c = "W" -> "w" [] c = "X" -> "x"
      [] c = "Y" -> "y" [] c = "Z" -> "z" [] OTHER -> c

\* str.lower()
Lower(s) == [i \in 1..Len(s) |-> LowerChar(s[i])]

\* str.strip(): drop leading and trailing white space
RECURSIVE LStrip(_)
LStrip(s) == IF s # <<>> /\ Head(s) \in WhiteSpace THEN LStrip(Tail(s)) ELSE s

RECURSIVE RStrip(_)
RStrip(s) ==
    IF s # <<>> /\ s[Len(s)] \in WhiteSpace
    THEN RStrip(SubSeq(s, 1, Len(s) - 1))
    ELSE s

Strip(s) == LStrip(RStrip(s))

\* s[:n]
Truncate(s, n) == IF Len(s) > n THEN SubSeq(s, 1, n) ELSE s

\* str.isdigit(): non-empty and every character a digit
IsDigit(s) == s # <<>> /\ \A i \in 1..Len(s) : s[i] \in Digits

DigitVal(c) ==
    CASE c = "0" -> 0 [] c = "1" -> 1 [] c = "2" -> 2 [] c = "3" -> 3
      [] c = "4" -> 4 [] c = "5" -> 5 [] c = "6" -> 6 [] c = "7" -> 7
      [] c = "8" -> 8 [] c = "9" -> 9

\* the INTEGER affinity SQLite applies to a text of digits bound to an
\* INTEGER column or compared with one
RECURSIVE ToInt(_)
ToInt(s) ==
    IF s = <<>> THEN 0
    ELSE 10 * ToInt(SubSeq(s, 1, Len(s) - 1)) + DigitVal(s[Len(s)])

\* validate_email: ^[a-zA-Z0-9._%+-]+@[a-zA-Z0-9.-]+\.[a-zA-Z]{2,}$
LocalChars == UpperCase \cup LowerCase \cup Digits \cup {".", "_", "%", "+", "-"}
DomainChars == UpperCase \cup LowerCase \cup Digits \cup {".", "-"}
TldChars == UpperCase \cup LowerCase

validate_email(email) ==
    \E at \in 1..Len(email) : \E dot \in 1..Len(email) :
        /\ email[at] = "@"
        /\ email[dot] = "."
        /\ at > 1
        /\ dot > at + 1
        /\ Len(email) - dot >= 2
        /\ \A i \in 1..(at - 1) : email[i] \in LocalChars
        /\ \A i \in (at + 1)..(dot - 1) : email[i] \in DomainChars
        /\ \A i \in (dot + 1)..Len(email) : email[i] \in TldChars

\* sanitize_input on text free of markup (no "<", ">" or "&"), on which
\* bleach.clean(text, tags=[], strip=True) returns its argument
sanitize_input(text, max_length) ==
    IF text = <<>> THEN <<>> ELSE Truncate(Strip(text), max_length)

\* ----------------------------------------------------------------- inputs
\* request.form "email" values: two spellings of one address, another
\* address, and a text that is no address
RawEmails ==
    { <<"A", "@", "b", ".", "c", "o", " ">>,
      <<"a", "@", "b", ".", "c", "o">>,
      <<"z", "@", "b", ".", "c", "o">>,
      <<"a", "@", "b">> }

\* request.form "option" values: option ids (of the first poll, and one of
\* the second poll if there is one), a text that is no number, and the
\* missing field
RawOptionIds == { <<"1">>, <<"2">>, <<"3">>, <<"x">>, <<>> }

\* request.form "question" values: 10 characters after strip(), and 9
Questions ==
    { <<" ", "B", "e", "s", "t", " ", "l", "a", "n", "g", "?">>,
      <<"B", "e", "s", "t", " ", "l", "a", "n", "?">> }

\* request.form.getlist("options") values
OptionLists ==
    { << <<"G", "o">>, <<"R", "u", "s", "t">> >>,
      << <<"G", "o">>, <<"R">>, <<"R", "u", "s", "t">> >>,
      << <<"G", "o">>, <<"G", "o">> >>,
      << <<"G", "o">> >> }

\* ten distinct options of two characters
TenOptions ==
    [i \in 1..10 |-> <<"o", <<"0", "1", "2", "3", "4", "5", "6", "7", "8", "9">>[i]>>]

\* an option of max_length + 1 characters
LongOption == [i \in 1..(OptionMaxLen + 1) |-> "x"]

\* request.form "options" lists at the limits of create_poll: 2 and 1
\* options, 10 and 11, a repeated text, two texts that differ in case, and
\* lists with an option that is too short or too long
BoundaryOptionLists ==
    { << <<"G", "o">>, <<"R", "u", "s", "t">> >>,
      << <<"G", "o">> >>,
      TenOptions,
      Append(TenOptions, <<"G", "o">>),
      << <<"G", "o">>, <<"G", "o">> >>,
      << <<"G", "o">>, <<"g", "o">> >>,
      << <<"G", "o">>, <<"R">>, <<"R", "u", "s", "t">> >>,
      << <<"G", "o">>, <<"R", "u", "s", "t">>, LongOption >> }

\* values uuid.uuid4().hex[:12] may take, in the order they are first drawn
PollIdSeq ==
    << <<"0", "1", "2", "3", "4", "5", "6", "7", "8", "9", "a", "b">>,
       <<"c", "d", "e", "f", "0", "1", "2", "3", "4", "5", "6", "7">> >>
PollIds == {PollIdSeq[i] : i \in 1..Len(PollIdSeq)}

\* request.remote_addr / X-Forwarded-For of the clients
Addrs == {"203.0.113.7"}

Endpoints == {"create_poll", "vote"}

\* ------------------------------------------------- token codec (line 42)
\* The signature of an itsdangerous token is modelled as the record of what
\* was signed: it verifies exactly when salt, payload and timestamp are the
\* ones of the token presented.  NoTs marks a value signed without timestamp.
NoTs == 0 - 1

NoPayload ==
    [json |-> FALSE, poll_id |-> <<>>, option_id |-> <<>>, email |-> <<>>, ip |-> ""]

Signature(salt, payload, ts) == [salt |-> salt, payload |-> payload, ts |-> ts]

NoToken ==
    [parts |-> 0, payload |-> NoPayload, ts |-> 0,
     sig |-> Signature("", NoPayload, 0)]

\* serializer.dumps(payload, salt=...) at time t: "payload.timestamp.signature"
serializer_dumps(payload, salt, t) ==
    [parts |-> 3, payload |-> payload, ts |-> t, sig |-> Signature(salt, payload, t)]

\* loads that decodes the payload without verifying the signature
serializer_loads_NoVerify(token, salt, max_age, t) ==
    IF token.parts <= 2 THEN "BadSignature"
    ELSE IF t - token.ts > max_age THEN "SignatureExpired"
    ELSE IF ~token.payload.json THEN "BadPayload"
    ELSE "None"

\* loads that refuses a token from the age max_age on
serializer_loads_Early(token, salt, max_age, t) ==
    IF token.parts <= 1 THEN "BadSignature"
    ELSE IF token.parts = 2 THEN
        IF token.sig = Signature(salt, token.payload, NoTs)
        THEN "BadTimeSignature"
        ELSE "BadSignature"
    ELSE IF token.sig # Signature(salt, token.payload, token.ts)
        THEN "BadTimeSignature"
    ELSE IF t - token.ts >= max_age THEN "SignatureExpired"
    ELSE IF ~token.payload.json THEN "BadPayload"
    ELSE "None"

\* serializer.loads(token, salt=..., max_age=...) at time t: the exception
\* raised ("None" when the payload is returned).
\*   no separator, or one separator and a signature that does not verify:
\*       Signer.unsign raises BadSignature, and TimestampSigner.unsign
\*       re-raises it because the value holds no timestamp
\*   a signature that does not verify over "payload.timestamp":
\*       BadTimeSignature
\*   age > max_age: SignatureExpired; a payload that does not decode:
\*       BadPayload
serializer_loads(token, salt, max_age, t) ==
    IF token.parts <= 1 THEN "BadSignature"
    ELSE IF token.parts = 2 THEN
        IF token.sig = Signature(salt, token.payload, NoTs)
        THEN "BadTimeSignature"
        ELSE "BadSignature"
    ELSE IF token.sig # Signature(salt, token.payload, token.ts)
        THEN "BadTimeSignature"
    ELSE IF t - token.ts > max_age THEN "SignatureExpired"
    ELSE IF ~token.payload.json THEN "BadPayload"
    ELSE "None"

\* What a client can present at /confirm_vote/<token> from a token it was
\* mailed: the token, or the token with its payload altered, its signature
\* altered or made under another salt of the same key, its payload made
\* undecodable, its timestamp or signature cut off, or all separators gone.
Presentable(t) ==
    {t}
    \cup {[t EXCEPT !.payload.option_id = o] : o \in {<<"1">>, <<"2">>}}
    \cup {[t EXCEPT !.sig.salt = s] : s \in {"forged", "cookie-session"}}
    \cup {[t EXCEPT !.payload.json = FALSE]}
    \cup {[t EXCEPT !.parts = n] : n \in {1, 2}}

\* ------------------------------------------------------------------ state
VARIABLES
    now,            \* the clock, in seconds
    ticks,          \* clock advances taken
    calls,          \* create_poll and vote requests served
    polls,          \* table polls: id -> row
    options,        \* table options: row at index id (AUTOINCREMENT)
    votes,          \* table votes: row at index id (AUTOINCREMENT)
    rate_limits,    \* table rate_limits: <<ip_address, endpoint>> -> row
    mailbox,        \* tokens whose confirmation mail reached the voter
    resp,           \* the outcome of the request that ended last
    pc,             \* confirm_vote request -> the statement it is at
    tok,            \* confirm_vote request -> the token it was given
    txn,            \* confirm_vote request -> its uncommitted transaction
    page,           \* what the poll or results view answered last
    form,           \* the form of the create_poll request submitted last
    checks,         \* check_rate_limit call -> the statement it is at, its locals
    log             \* the check_rate_limit calls that returned, in order

db == <<polls, options, votes>>
vars == <<now, ticks, calls, polls, options, votes, rate_limits, mailbox,
          resp, pc, tok, txn, page, form, checks, log>>

\* what only the views and the submitted forms, and only the statements of
\* check_rate_limit, change
views == <<page, form>>
limiter == <<checks, log>>

Reqs == 1..MaxReq

NoTxn == [open |-> FALSE, votes |-> <<>>, options |-> <<>>]

\* no view was requested yet
NoPage == [outcome |-> "none", poll_id |-> <<>>, options |-> <<>>, total_votes |-> 0]

\* no create_poll form was submitted yet
NoForm == [question |-> <<>>, options |-> <<>>]

\* a check_rate_limit call that is not running
NoCall ==
    [pc |-> "idle", key |-> <<"", "">>, at |-> 0, res |-> 0,
     table |-> [k \in {} |-> 0]]

\* The rate_limits rows at the start: each client has made max_attempts - 2
\* requests to each endpoint at time 0, all rejected by validation, so that
\* the tables are empty and the limit is two requests away.
RateKeys == Addrs \X Endpoints
NearLimit ==
    [k \in RateKeys |-> [attempt_count |-> MaxAttempts - 2, last_attempt |-> 0]]

Init ==
    /\ now = 0
    /\ ticks = 0
    /\ calls = 0
    /\ polls = [p \in {} |-> 0]
    /\ options = <<>>
    /\ votes = <<>>
    /\ rate_limits = NearLimit
    /\ mailbox = {}
    /\ resp = "none"
    /\ pc = [r \in Reqs |-> "idle"]
    /\ tok = [r \in Reqs |-> NoToken]
    /\ txn = [r \in Reqs |-> NoTxn]
    /\ page = NoPage
    /\ form = NoForm
    /\ checks = [q \in Reqs |-> NoCall]
    /\ log = <<>>

\* ------------------------------------------------------------ rate limiting
\* DELETE FROM rate_limits WHERE last_attempt < now - time_window
PruneRateLimits(table, t) ==
    LET keep == {k \in DOMAIN table : ~(table[k].last_attempt < t - TimeWindow)}
    IN  [k \in keep |-> table[k]]

\* check_rate_limit for the client ip: whether the request is allowed, and the
\* table left behind.  The refusing path closes the connection without a
\* commit, so its DELETE is rolled back.
check_rate_limit(ip, endpoint) ==
    LET pruned == PruneRateLimits(rate_limits, now)
        key == <<ip, endpoint>>
    IN  IF key \in DOMAIN pruned
        THEN IF pruned[key].attempt_count >= MaxAttempts
             THEN [allowed |-> FALSE, table |-> rate_limits]
             ELSE [allowed |-> TRUE,
                   table |-> [pruned EXCEPT ![key] =
                                 [attempt_count |-> pruned[key].attempt_count + 1,
                                  last_attempt |-> now]]]
        ELSE [allowed |-> TRUE,
              table |-> pruned @@ (key :> [attempt_count |-> 1, last_attempt |-> now])]

\* SQLite lets one connection at a time hold the write lock; a statement that
\* writes waits (busy handler) while another connection's transaction is open.
WriteLockFree == \A r \in Reqs : ~txn[r].open

\* rate_limit_decorator: the handler runs only when check_rate_limit allows
rate_limit_decorator(ip, endpoint_name, f) ==
    LET rl == check_rate_limit(ip, endpoint_name)
    IN  /\ WriteLockFree
        /\ calls < MaxCalls
        /\ calls' = calls + 1
        /\ IF ~rl.allowed
           THEN /\ resp' = "RateLimited"
                /\ UNCHANGED <<rate_limits, polls, options, votes, mailbox>>
           ELSE /\ rate_limits' = rl.table
                /\ f

\* ------------------------------------------------------------- create_poll
\* polls.max_votes INTEGER DEFAULT 1000
DefaultMaxVotes == 1000

\* the loop over raw_options: keep the cleaned options of length >= 2
RECURSIVE CollectOptions(_)
CollectOptions(raw_options) ==
    IF raw_options = <<>> THEN <<>>
    ELSE LET cleaned == sanitize_input(Head(raw_options), OptionMaxLen)
             rest == CollectOptions(Tail(raw_options))
         IN  IF cleaned # <<>> /\ Len(cleaned) >= OptionMinLen
             THEN <<cleaned>> \o rest
             ELSE rest

\* len(options) != len(set(options))
HasDuplicates(opts) == Len(opts) # Cardinality({opts[i] : i \in 1..Len(opts)})

\* the checks with the limit of 10 options exclusive
CreatePollCheck_Below10(raw_question, raw_options) ==
    LET question == sanitize_input(raw_question, QuestionMaxLen)
        opts == CollectOptions(raw_options)
    IN  IF question = <<>> \/ Len(question) < QuestionMinLen THEN "ValidationError"
        ELSE IF Len(opts) < MinOptions THEN "ValidationError"
        ELSE IF Len(opts) >= MaxOptions THEN "ValidationError"
        ELSE IF HasDuplicates(opts) THEN "ValidationError"
        ELSE "ok"

\* the checks of create_poll before it writes: "ok" or the rejection
CreatePollCheck(raw_question, raw_options) ==
    LET question == sanitize_input(raw_question, QuestionMaxLen)
        opts == CollectOptions(raw_options)
    IN  IF question = <<>> \/ Len(question) < QuestionMinLen THEN "ValidationError"
        ELSE IF Len(opts) < MinOptions THEN "ValidationError"
        ELSE IF Len(opts) > MaxOptions THEN "ValidationError"
        ELSE IF HasDuplicates(opts) THEN "ValidationError"
        ELSE "ok"

\* INSERT INTO polls ...; INSERT INTO options ... for each option; commit.
\* A poll_id already taken violates the PRIMARY KEY: rollback, nothing stored.
create_poll_body(raw_question, raw_options, poll_id) ==
    LET question == sanitize_input(raw_question, QuestionMaxLen)
        opts == CollectOptions(raw_options)
        check == CreatePollCheck(raw_question, raw_options)
    IN  /\ UNCHANGED <<votes, mailbox>>
        /\ IF check # "ok"
           THEN /\ resp' = check
                /\ UNCHANGED <<polls, options>>
           ELSE IF poll_id \in DOMAIN polls
           THEN /\ resp' = "Error"
                /\ UNCHANGED <<polls, options>>
           ELSE /\ polls' = polls @@
                      (poll_id :> [question |-> question, is_active |-> TRUE,
                                   max_votes |-> DefaultMaxVotes,
                                   expire_date |-> now + PollLifetime])
                /\ options' = options \o
                      [i \in 1..Len(opts) |->
                          [poll_id |-> poll_id, option_text |-> opts[i], votes |-> 0]]
                /\ resp' = "Created"

create_poll(ip, raw_question, raw_options, poll_id) ==
    /\ rate_limit_decorator(ip, "create_poll",
                            create_poll_body(raw_question, raw_options, poll_id))
    /\ UNCHANGED <<now, ticks, pc, tok, txn>>

\* create_poll when, after the INSERT of the poll and of n options, the next
\* statement (an INSERT or the commit) raises: except Exception rolls back
create_poll_failing_body(raw_question, raw_options, poll_id, n) ==
    LET opts == CollectOptions(raw_options)
    IN  /\ CreatePollCheck(raw_question, raw_options) = "ok"
        /\ poll_id \notin DOMAIN polls
        /\ n \in 0..Len(opts)
        /\ resp' = "Error"
        /\ UNCHANGED <<polls, options, votes, mailbox>>

create_poll_failing(ip, raw_question, raw_options, poll_id, n) ==
    /\ rate_limit_decorator(ip, "create_poll",
            create_poll_failing_body(raw_question, raw_options, poll_id, n))
    /\ UNCHANGED <<now, ticks, pc, tok, txn>>

\* -------------------------------------------------------------------- vote
\* the normalization without lower()
NormalizeEmail_NoLower(raw_email) == Strip(raw_email)

\* (request.form.get("email") or "").strip().lower()
NormalizeEmail(raw_email) == Lower(Strip(raw_email))

\* SELECT id FROM options WHERE id=?
OptionInPoll_AnyPoll(opts, option_id, poll_id) ==
    /\ IsDigit(option_id)
    /\ ToInt(option_id) \in 1..Len(opts)

\* SELECT id FROM options WHERE id=? AND poll_id=?   (the text is compared
\* with the INTEGER id under integer affinity)
OptionInPoll(opts, option_id, poll_id) ==
    /\ IsDigit(option_id)
    /\ ToInt(option_id) \in 1..Len(opts)
    /\ opts[ToInt(option_id)].poll_id = poll_id

\* SELECT id FROM votes WHERE poll_id=? AND email=?
HasVoted(vs, poll_id, email) ==
    \E i \in 1..Len(vs) : vs[i].poll_id = poll_id /\ vs[i].email = email

\* if not poll or not poll['is_active']
PollRejected(poll_id) == poll_id \notin DOMAIN polls \/ ~polls[poll_id].is_active

\* the checks of vote before the token is minted: "ok" or the rejection
VoteCheck(poll_id, email, option_id) ==
    IF email = <<>> \/ ~validate_email(email) THEN "ValidationError"
    ELSE IF option_id = <<>> \/ ~IsDigit(option_id) THEN "ValidationError"
    ELSE IF PollRejected(poll_id) THEN "PollNotVotable"
    ELSE IF ~OptionInPoll(options, option_id, poll_id) THEN "InvalidOption"
    ELSE IF HasVoted(votes, poll_id, email) THEN "DuplicateVote"
    ELSE "ok"

\* the payload vote() signs
VotePayload(poll_id, option_id, email, ip) ==
    [json |-> TRUE, poll_id |-> poll_id, option_id |-> option_id,
     email |-> email, ip |-> ip]

\* send_mailgun_email returns, or raises: before the mail left, or after
\* Mailgun accepted it (a timeout or an error status on the response)
SendResults == {"ok", "raised", "raised_after_accept"}

\* vote() storing the vote as unconfirmed before the mail is sent
vote_body_Pending(ip, poll_id, raw_email, option_id) ==
    LET email == NormalizeEmail(raw_email)
        check == VoteCheck(poll_id, email, option_id)
        token == serializer_dumps(VotePayload(poll_id, option_id, email, ip),
                                  ConfirmSalt, now)
    IN  /\ UNCHANGED <<polls, options>>
        /\ IF check # "ok"
           THEN /\ resp' = check
                /\ UNCHANGED <<mailbox, votes>>
           ELSE \E send \in SendResults :
                /\ votes' = Append(votes,
                      [poll_id |-> poll_id, email |-> email,
                       option_id |-> ToInt(option_id), confirmed |-> FALSE,
                       ip_address |-> ip])
                /\ mailbox' = IF send = "raised" THEN mailbox ELSE mailbox \cup {token}
                /\ resp' = IF send = "ok" THEN "TokenIssued" ELSE "DeliveryFailed"

vote_body(ip, poll_id, raw_email, option_id) ==
    LET email == NormalizeEmail(raw_email)
        check == VoteCheck(poll_id, email, option_id)
        token == serializer_dumps(VotePayload(poll_id, option_id, email, ip),
                                  ConfirmSalt, now)
    IN  /\ UNCHANGED <<polls, options, votes>>
        /\ IF check # "ok"
           THEN /\ resp' = check
                /\ UNCHANGED mailbox
           ELSE \E send \in SendResults :
                /\ mailbox' = IF send = "raised" THEN mailbox ELSE mailbox \cup {token}
                /\ resp' = IF send = "ok" THEN "TokenIssued" ELSE "DeliveryFailed"

vote(ip, poll_id, raw_email, option_id) ==
    /\ rate_limit_decorator(ip, "vote",
                            vote_body(ip, poll_id, raw_email, option_id))
    /\ UNCHANGED <<now, ticks, pc, tok, txn>>

\* ------------------------------------------------------------------- clock
\* the clock advances by the lifetime of a token or of a poll; a transaction
\* is over within the busy timeout, so no such time passes while one is open
TickSteps == {MaxAge, PollLifetime}

Tick(d) ==
    /\ ticks < MaxTicks
    /\ WriteLockFree
    /\ now' = now + d
    /\ ticks' = ticks + 1
    /\ UNCHANGED <<calls, polls, options, votes, rate_limits, mailbox, resp,
                   pc, tok, txn>>

\* ------------------------------------------------------------ confirm_vote
\* tokens a client can put in the confirmation link
Tokens == UNION {Presentable(t) : t \in mailbox}

\* the except clauses around serializer.loads: SignatureExpired and
\* BadTimeSignature are caught; any other exception leaves the handler and
\* Flask answers with the 500 page
LoadsOutcome(exc) ==
    IF exc = "SignatureExpired" THEN "Expired"
    ELSE IF exc = "BadTimeSignature" THEN "Invalid"
    ELSE "InternalServerError"

\* data = serializer.loads(token, salt='email-confirm-v2', max_age=3600);
\* the request ends here when loads raises.  Requests are interchangeable:
\* a new one takes the first free place.
ConfirmBegin(r, token) ==
    LET exc == serializer_loads(token, ConfirmSalt, MaxAge, now)
    IN  /\ pc[r] = "idle"
        /\ \A q \in Reqs : q < r => pc[q] # "idle"
        /\ IF exc = "None"
           THEN /\ tok' = [tok EXCEPT ![r] = token]
                /\ pc' = [pc EXCEPT ![r] = "select"]
                /\ UNCHANGED resp
           ELSE /\ resp' = LoadsOutcome(exc)
                /\ UNCHANGED <<tok, pc>>
        /\ UNCHANGED <<now, ticks, calls, polls, options, votes, rate_limits,
                       mailbox, txn>>

\* a repeated confirmation answered as a success
ConfirmSelect_Reconfirm(r) ==
    LET data == tok[r].payload
    IN  /\ pc[r] = "select"
        /\ IF HasVoted(votes, data.poll_id, data.email)
           THEN /\ resp' = "Confirmed"
                /\ pc' = [pc EXCEPT ![r] = "idle"]
                /\ tok' = [tok EXCEPT ![r] = NoToken]
           ELSE /\ pc' = [pc EXCEPT ![r] = "insert"]
                /\ UNCHANGED <<resp, tok>>
        /\ UNCHANGED <<now, ticks, calls, polls, options, votes, rate_limits,
                       mailbox, txn>>

\* existing = SELECT id FROM votes WHERE poll_id=? AND email=?  (reads what
\* is committed)
ConfirmSelect(r) ==
    LET data == tok[r].payload
    IN  /\ pc[r] = "select"
        /\ IF HasVoted(votes, data.poll_id, data.email)
           THEN /\ resp' = "DuplicateAtConfirm"
                /\ pc' = [pc EXCEPT ![r] = "idle"]
                /\ tok' = [tok EXCEPT ![r] = NoToken]
           ELSE /\ pc' = [pc EXCEPT ![r] = "insert"]
                /\ UNCHANGED <<resp, tok>>
        /\ UNCHANGED <<now, ticks, calls, polls, options, votes, rate_limits,
                       mailbox, txn>>

\* the row of INSERT INTO votes (poll_id, email, option_id, confirmed,
\* ip_address); option_id takes the INTEGER affinity of its column
VoteRow(data, ip) ==
    [poll_id |-> data.poll_id, email |-> data.email,
     option_id |-> ToInt(data.option_id), confirmed |-> TRUE, ip_address |-> ip]

\* table votes without UNIQUE(poll_id, email)
ViolatesConstraint_NoUnique(vs, row) ==
    \/ row.poll_id \notin DOMAIN polls
    \/ row.option_id \notin 1..Len(options)

\* the constraints of table votes: UNIQUE(poll_id, email) and the two
\* FOREIGN KEYs (PRAGMA foreign_keys = ON)
ViolatesConstraint(vs, row) ==
    \/ \E i \in 1..Len(vs) : vs[i].poll_id = row.poll_id /\ vs[i].email = row.email
    \/ row.poll_id \notin DOMAIN polls
    \/ row.option_id \notin 1..Len(options)

\* INSERT INTO votes ...: opens the transaction and takes the write lock; a
\* constraint violation raises sqlite3.IntegrityError, and the connection is
\* closed without a commit
ConfirmInsert(r, ip) ==
    LET row == VoteRow(tok[r].payload, ip)
    IN  /\ pc[r] = "insert"
        /\ WriteLockFree
        /\ IF ViolatesConstraint(votes, row)
           THEN /\ resp' = "DuplicateAtConfirm"
                /\ pc' = [pc EXCEPT ![r] = "idle"]
                /\ tok' = [tok EXCEPT ![r] = NoToken]
                /\ UNCHANGED txn
           ELSE /\ txn' = [txn EXCEPT ![r] =
                              [open |-> TRUE, votes |-> Append(votes, row),
                               options |-> options]]
                /\ pc' = [pc EXCEPT ![r] = "update"]
                /\ UNCHANGED <<resp, tok>>
        /\ UNCHANGED <<now, ticks, calls, polls, options, votes, rate_limits,
                       mailbox>>

\* UPDATE options SET votes = votes + 1 WHERE poll_id = (the option's poll)
IncrementVotes_WholePoll(opts, option_id) ==
    [i \in 1..Len(opts) |->
        IF opts[i].poll_id = opts[ToInt(option_id)].poll_id
        THEN [opts[i] EXCEPT !.votes = opts[i].votes + 1]
        ELSE opts[i]]

\* UPDATE options SET votes = votes + 1 WHERE id=?
IncrementVotes(opts, option_id) ==
    [i \in 1..Len(opts) |->
        IF i = ToInt(option_id)
        THEN [opts[i] EXCEPT !.votes = opts[i].votes + 1]
        ELSE opts[i]]

ConfirmUpdate(r) ==
    /\ pc[r] = "update"
    /\ txn' = [txn EXCEPT ![r].options =
                  IncrementVotes(txn[r].options, tok[r].payload.option_id)]
    /\ pc' = [pc EXCEPT ![r] = "commit"]
    /\ UNCHANGED <<now, ticks, calls, polls, options, votes, rate_limits,
                   mailbox, resp, tok>>

\* conn.commit(): the transaction's rows become the committed tables
ConfirmCommit(r) ==
    /\ pc[r] = "commit"
    /\ votes' = txn[r].votes
    /\ options' = txn[r].options
    /\ txn' = [txn EXCEPT ![r] = NoTxn]
    /\ resp' = "Confirmed"
    /\ pc' = [pc EXCEPT ![r] = "idle"]
    /\ tok' = [tok EXCEPT ![r] = NoToken]
    /\ UNCHANGED <<now, ticks, calls, polls, rate_limits, mailbox>>

\* a connection in autocommit mode: the INSERT stays when a later statement
\* raises
ConfirmAbort_NoRollback(r) ==
    /\ pc[r] \in {"update", "commit"}
    /\ votes' = txn[r].votes
    /\ txn' = [txn EXCEPT ![r] = NoTxn]
    /\ resp' = "Error"
    /\ pc' = [pc EXCEPT ![r] = "idle"]
    /\ tok' = [tok EXCEPT ![r] = NoToken]
    /\ UNCHANGED <<now, ticks, calls, polls, options, rate_limits, mailbox>>

\* the UPDATE or the commit raises (an exception other than IntegrityError):
\* except Exception answers with the error flash, and conn.close() in the
\* finally clause drops the uncommitted transaction
ConfirmAbort(r) ==
    /\ pc[r] \in {"update", "commit"}
    /\ txn' = [txn EXCEPT ![r] = NoTxn]
    /\ resp' = "Error"
    /\ pc' = [pc EXCEPT ![r] = "idle"]
    /\ tok' = [tok EXCEPT ![r] = NoToken]
    /\ UNCHANGED <<now, ticks, calls, polls, options, votes, rate_limits,
                   mailbox>>

\* ------------------------------------------------------------------ views
\* the characters of [a-f0-9]
HexChars == Digits \cup {"a", "b", "c", "d", "e", "f"}

\* re.match(r'^[a-f0-9]{12}$', poll_id): "$" matches at the end of the text
\* and also just before a newline that ends it
IsPollId(poll_id) ==
    LET body == IF Len(poll_id) = 13 /\ poll_id[13] = "\n"
                THEN SubSeq(poll_id, 1, 12)
                ELSE poll_id
    IN  /\ Len(body) = 12
        /\ \A i \in 1..12 : body[i] \in HexChars

\* identifiers a client can put in a URL besides those of PollIds: 11
\* characters, an upper-case letter, and a newline (%0A) after 12 characters
MalformedIds ==
    { SubSeq(PollIdSeq[1], 1, 11),
      [PollIdSeq[1] EXCEPT ![11] = "A"],
      Append(PollIdSeq[1], "\n") }
RequestIds == PollIds \cup MalformedIds

\* the ids of the options of a poll
OptionIdsOf(opts, poll_id) == {i \in 1..Len(opts) : opts[i].poll_id = poll_id}

\* a row of options as the templates get it
OptionRow(opts, i) ==
    [id |-> i, option_text |-> opts[i].option_text, votes |-> opts[i].votes]

\* ORDER BY id
RECURSIVE OrderById(_, _)
OrderById(opts, ids) ==
    IF ids = {} THEN <<>>
    ELSE LET first == CHOOSE i \in ids : \A j \in ids : i <= j
         IN  <<OptionRow(opts, first)>> \o OrderById(opts, ids \ {first})

\* ORDER BY votes DESC, id DESC
RECURSIVE OrderByVotes_IdDesc(_, _)
OrderByVotes_IdDesc(opts, ids) ==
    IF ids = {} THEN <<>>
    ELSE LET first == CHOOSE i \in ids : \A j \in ids :
                          \/ opts[i].votes > opts[j].votes
                          \/ opts[i].votes = opts[j].votes /\ i >= j
         IN  <<OptionRow(opts, first)>> \o OrderByVotes_IdDesc(opts, ids \ {first})

\* ORDER BY votes DESC, id
RECURSIVE OrderByVotes(_, _)
OrderByVotes(opts, ids) ==
    IF ids = {} THEN <<>>
    ELSE LET first == CHOOSE i \in ids : \A j \in ids :
                          \/ opts[i].votes > opts[j].votes
                          \/ opts[i].votes = opts[j].votes /\ i <= j
         IN  <<OptionRow(opts, first)>> \o OrderByVotes(opts, ids \ {first})

\* sum(o['votes'] for o in options)
RECURSIVE SumVotes(_)
SumVotes(rows) ==
    IF rows = <<>> THEN 0 ELSE Head(rows).votes + SumVotes(Tail(rows))

Page(outcome, poll_id, rows) ==
    [outcome |-> outcome, poll_id |-> poll_id, options |-> rows,
     total_votes |-> SumVotes(rows)]

\* what results(poll_id) answers on the tables pls and opts
ResultsOf(pls, opts, poll_id) ==
    IF ~IsPollId(poll_id) THEN Page("MalformedId", poll_id, <<>>)
    ELSE IF poll_id \notin DOMAIN pls THEN Page("NotFound", poll_id, <<>>)
    ELSE Page("Results", poll_id, OrderByVotes(opts, OptionIdsOf(opts, poll_id)))

\* GET /results/<poll_id>
results(poll_id) ==
    /\ page' = ResultsOf(polls, options, poll_id)
    /\ UNCHANGED <<now, ticks, calls, polls, options, votes, rate_limits, mailbox,
                   resp, pc, tok, txn, form, checks, log>>

\* GET /poll/<poll_id>
poll(poll_id) ==
    /\ page' =
        IF ~IsPollId(poll_id) THEN Page("MalformedId", poll_id, <<>>)
        ELSE IF poll_id \notin DOMAIN polls THEN Page("NotFound", poll_id, <<>>)
        ELSE IF ~polls[poll_id].is_active THEN Page("PollInactive", poll_id, <<>>)
        ELSE IF now > polls[poll_id].expire_date THEN Page("PollExpired", poll_id, <<>>)
        ELSE Page("Poll", poll_id, OrderById(options, OptionIdsOf(options, poll_id)))
    /\ UNCHANGED <<now, ticks, calls, polls, options, votes, rate_limits, mailbox,
                   resp, pc, tok, txn, form, checks, log>>

\* -------------------------------- check_rate_limit, statement by statement
\* the clients and keys of the calls: one client at both endpoints, and a
\* second client
RateAddrs == Addrs \cup {"198.51.100.9"}
RateCallKeys ==
    {<<a, "vote">> : a \in RateAddrs} \cup {<<a, "create_poll">> : a \in Addrs}

\* the rate_limits table of a new database
NoRows == [k \in {} |-> 0]

\* a connection of check_rate_limit holds the write lock from its DELETE to
\* its commit or close
RateLockFree ==
    /\ WriteLockFree
    /\ \A q \in Reqs : checks[q].pc \in {"idle", "delete"}

\* UPDATE rate_limits SET attempt_count=attempt_count+1, last_attempt=now, or
\* INSERT INTO rate_limits (..., 1, now)
RateWriteStmt(table, key, t) ==
    IF key \in DOMAIN table
    THEN [table EXCEPT ![key] = [attempt_count |-> table[key].attempt_count + 1,
                                 last_attempt |-> t]]
    ELSE table @@ (key :> [attempt_count |-> 1, last_attempt |-> t])

\* the entry of log for a call that returned
Returned(key, at, end, allowed) ==
    [key |-> key, at |-> at, end |-> end, allowed |-> allowed]

\* ip = get_client_ip(); now = datetime.now(): the call starts
RateRead(q, key) ==
    /\ checks[q].pc = "idle"
    /\ \A o \in Reqs : o < q => checks[o].pc # "idle"
    /\ calls < MaxRateCalls
    /\ calls' = calls + 1
    /\ checks' = [checks EXCEPT ![q] = [NoCall EXCEPT !.pc = "delete", !.key = key,
                                                    !.at = now]]
    /\ UNCHANGED <<now, ticks, polls, options, votes, rate_limits, mailbox, resp,
                   pc, tok, txn, page, form, log>>

\* DELETE FROM rate_limits WHERE last_attempt < now - time_window: opens the
\* transaction, waiting for the write lock
RateDelete(q) ==
    /\ checks[q].pc = "delete"
    /\ RateLockFree
    /\ checks' = [checks EXCEPT ![q].pc = "select",
                                ![q].table = PruneRateLimits(rate_limits, checks[q].at)]
    /\ UNCHANGED <<now, ticks, calls, polls, options, votes, rate_limits, mailbox,
                   resp, pc, tok, txn, page, form, log>>

\* a refusal that records the attempt: last_attempt is set and committed
RateSelect_Refresh(q) ==
    LET c == checks[q]
        found == c.key \in DOMAIN c.table
    IN  /\ c.pc = "select"
        /\ IF found /\ c.table[c.key].attempt_count >= MaxAttempts
           THEN /\ checks' = [checks EXCEPT ![q] = NoCall]
                /\ log' = Append(log, Returned(c.key, c.at, now, FALSE))
                /\ rate_limits' = [c.table EXCEPT ![c.key].last_attempt = c.at]
           ELSE /\ checks' = [checks EXCEPT ![q].pc = "write",
                                  ![q].res = IF found THEN c.table[c.key].attempt_count
                                             ELSE 0]
                /\ UNCHANGED <<log, rate_limits>>
        /\ UNCHANGED <<now, ticks, calls, polls, options, votes,
                       mailbox, resp, pc, tok, txn, page, form>>

\* SELECT attempt_count ...; at max_attempts the connection is closed without
\* a commit and the call returns False
RateSelect(q) ==
    LET c == checks[q]
        found == c.key \in DOMAIN c.table
    IN  /\ c.pc = "select"
        /\ IF found /\ c.table[c.key].attempt_count >= MaxAttempts
           THEN /\ checks' = [checks EXCEPT ![q] = NoCall]
                /\ log' = Append(log, Returned(c.key, c.at, now, FALSE))
           ELSE /\ checks' = [checks EXCEPT ![q].pc = "write",
                                  ![q].res = IF found THEN c.table[c.key].attempt_count
                                             ELSE 0]
                /\ UNCHANGED log
        /\ UNCHANGED <<now, ticks, calls, polls, options, votes, rate_limits,
                       mailbox, resp, pc, tok, txn, page, form>>

\* the UPDATE of the row found, or the INSERT of a first row
RateWrite(q) ==
    LET c == checks[q]
    IN  /\ c.pc = "write"
        /\ checks' = [checks EXCEPT ![q].pc = "commit",
                                    ![q].table = RateWriteStmt(c.table, c.key, c.at)]
        /\ UNCHANGED <<now, ticks, calls, polls, options, votes, rate_limits,
                       mailbox, resp, pc, tok, txn, page, form, log>>

\* conn.commit(); conn.close(); return True
RateCommit(q) ==
    LET c == checks[q]
    IN  /\ c.pc = "commit"
        /\ rate_limits' = c.table
        /\ checks' = [checks EXCEPT ![q] = NoCall]
        /\ log' = Append(log, Returned(c.key, c.at, now, TRUE))
        /\ UNCHANGED <<now, ticks, calls, polls, options, votes, mailbox, resp,
                       pc, tok, txn, page, form>>

\* one whole call at time t with no other call between its statements: the
\* decision and the table left behind
RunCheck(table, key, t) ==
    LET pruned == PruneRateLimits(table, t)
    IN  IF key \in DOMAIN pruned /\ pruned[key].attempt_count >= MaxAttempts
        THEN [allowed |-> FALSE, table |-> table]
        ELSE [allowed |-> TRUE, table |-> RateWriteStmt(pruned, key, t)]

\* n whole calls of one client, one after the other, at time t: the first
\* half of them, and when these have returned, the rest
RECURSIVE RunChecks(_, _, _, _, _)
RunChecks(table, entries, key, t, n) ==
    IF n = 0 THEN [table |-> table, log |-> entries]
    ELSE IF n = 1
    THEN LET one == RunCheck(table, key, t)
         IN  [table |-> one.table,
              log |-> Append(entries, Returned(key, t, t, one.allowed))]
    ELSE LET half == RunChecks(table, entries, key, t, n \div 2)
         IN  IF Len(half.log) >= n \div 2
             THEN RunChecks(half.table, half.log, key, t, n - (n \div 2))
             ELSE half

\* a client sends max_attempts - 1 requests one after the other within one
\* second, and no other call runs meanwhile
RateBurst(key) ==
    LET run == RunChecks(rate_limits, log, key, now, MaxAttempts - 1)
    IN  /\ RateLockFree
        /\ calls < MaxRateCalls
        /\ calls' = calls + 1
        /\ rate_limits' = run.table
        /\ log' = run.log
        /\ UNCHANGED <<now, ticks, polls, options, votes, mailbox, resp, pc, tok,
                       txn, page, form, checks>>

\* the client that sends bursts
BurstKeys == {<<a, "vote">> : a \in Addrs}

\* the clock advances by a second, or, while no call is running (a call
\* returns within the busy timeout), by the time window
RateTickSteps == {1, TimeWindow}

RateTick(d) ==
    /\ d = 1 \/ \A q \in Reqs : checks[q].pc = "idle"
    /\ Tick(d)

\* ---------------------------------------------------------- specifications
\* uuid4 draws a value not drawn before (values are interchangeable: the
\* first unused one of PollIdSeq), or by accident one already drawn
DrawnIds ==
    DOMAIN polls \cup
    {PollIdSeq[i] : i \in {j \in 1..Len(PollIdSeq) :
                               \A k \in 1..(j - 1) : PollIdSeq[k] \in DOMAIN polls}}

CreatePollStep ==
    /\ \E ip \in Addrs : \E q \in Questions : \E o \in OptionLists : \E id \in DrawnIds :
        create_poll(ip, q, o, id)
    /\ UNCHANGED <<views, limiter>>

VoteStepOf(emails) ==
    /\ \E ip \in Addrs : \E p \in PollIds : \E e \in emails :
        \E o \in RawOptionIds : vote(ip, p, e, o)
    /\ UNCHANGED <<views, limiter>>

VoteStep == VoteStepOf(RawEmails)

ConfirmBeginStep ==
    /\ \E r \in Reqs : \E t \in Tokens : ConfirmBegin(r, t)
    /\ UNCHANGED <<views, limiter>>
ConfirmSelectStep ==
    /\ \E r \in Reqs : ConfirmSelect(r)
    /\ UNCHANGED <<views, limiter>>
ConfirmInsertStep ==
    /\ \E r \in Reqs : \E ip \in Addrs : ConfirmInsert(r, ip)
    /\ UNCHANGED <<views, limiter>>
ConfirmUpdateStep ==
    /\ \E r \in Reqs : ConfirmUpdate(r)
    /\ UNCHANGED <<views, limiter>>
ConfirmCommitStep ==
    /\ \E r \in Reqs : ConfirmCommit(r)
    /\ UNCHANGED <<views, limiter>>
ConfirmAbortStep ==
    /\ \E r \in Reqs : ConfirmAbort(r)
    /\ UNCHANGED <<views, limiter>>
TickStep ==
    /\ \E d \in TickSteps : Tick(d)
    /\ UNCHANGED <<views, limiter>>

Next ==
    \/ CreatePollStep
    \/ VoteStep
    \/ ConfirmBeginStep
    \/ ConfirmSelectStep
    \/ ConfirmInsertStep
    \/ ConfirmUpdateStep
    \/ ConfirmCommitStep

\* The requests of all clients, interleaved statement by statement, with the
\* clock standing still; no statement fails for a reason other than a
\* constraint.
Spec == Init /\ [][Next]_vars

\* as Spec, and a statement of an open transaction may fail
NextFault == Next \/ ConfirmAbortStep

SpecFault == Init /\ [][NextFault]_vars

\* as Spec with the clock advancing between any two statements, for the
\* requests of one voter
TimedEmails == { <<"a", "@", "b", ".", "c", "o">>, <<"a", "@", "b">> }

NextTime ==
    \/ CreatePollStep
    \/ VoteStepOf(TimedEmails)
    \/ ConfirmBeginStep
    \/ ConfirmSelectStep
    \/ ConfirmInsertStep
    \/ ConfirmUpdateStep
    \/ ConfirmCommitStep
    \/ TickStep

SpecTime == Init /\ [][NextTime]_vars

\* the calls of check_rate_limit of several clients on a new database,
\* interleaved statement by statement, with the clock advancing
InitRate ==
    /\ now = 0
    /\ ticks = 0
    /\ calls = 0
    /\ polls = [p \in {} |-> 0]
    /\ options = <<>>
    /\ votes = <<>>
    /\ rate_limits = NoRows
    /\ mailbox = {}
    /\ resp = "none"
    /\ pc = [r \in Reqs |-> "idle"]
    /\ tok = [r \in Reqs |-> NoToken]
    /\ txn = [r \in Reqs |-> NoTxn]
    /\ page = NoPage
    /\ form = NoForm
    /\ checks = [q \in Reqs |-> NoCall]
    /\ log = <<>>

RateReadStep == \E q \in Reqs : \E key \in RateCallKeys : RateRead(q, key)
RateDeleteStep == \E q \in Reqs : RateDelete(q)
RateSelectStep == \E q \in Reqs : RateSelect(q)
RateWriteStep == \E q \in Reqs : RateWrite(q)
RateCommitStep == \E q \in Reqs : RateCommit(q)
RateBurstStep == \E key \in BurstKeys : RateBurst(key)
RateTickStep ==
    /\ \E d \in RateTickSteps : RateTick(d)
    /\ UNCHANGED <<views, limiter>>

NextRate ==
    \/ RateReadStep
    \/ RateDeleteStep
    \/ RateSelectStep
    \/ RateWriteStep
    \/ RateCommitStep
    \/ RateBurstStep
    \/ RateTickStep

SpecRate == InitRate /\ [][NextRate]_vars

\* the requests of Spec for one voter, together with the two views, and any
\* identifier a client can put in the URL
VoteAnyIdStep ==
    /\ \E ip \in Addrs : \E p \in RequestIds : \E e \in TimedEmails :
        \E o \in RawOptionIds : vote(ip, p, e, o)
    /\ UNCHANGED <<views, limiter>>

PollViewStep ==
    /\ \E p \in RequestIds : poll(p)

ResultsStep ==
    /\ \E p \in RequestIds : results(p)

NextView ==
    \/ CreatePollStep
    \/ VoteAnyIdStep
    \/ ConfirmBeginStep
    \/ ConfirmSelectStep
    \/ ConfirmInsertStep
    \/ ConfirmUpdateStep
    \/ ConfirmCommitStep
    \/ PollViewStep
    \/ ResultsStep

SpecView == Init /\ [][NextView]_vars

\* create_poll with the inputs at its limits, also with a failing statement,
\* among the requests of one voter and the results view
CreateBoundaryStep ==
    /\ \E ip \in Addrs : \E q \in Questions : \E o \in BoundaryOptionLists :
        \E id \in DrawnIds :
            /\ create_poll(ip, q, o, id)
            /\ form' = [question |-> q, options |-> o]
    /\ UNCHANGED <<page, limiter>>

CreateFailingStep ==
    /\ \E ip \in Addrs : \E q \in Questions : \E o \in BoundaryOptionLists :
        \E id \in DrawnIds : \E n \in {0, MinOptions} :
            /\ create_poll_failing(ip, q, o, id, n)
            /\ form' = [question |-> q, options |-> o]
    /\ UNCHANGED <<page, limiter>>

NextCreate ==
    \/ CreateBoundaryStep
    \/ CreateFailingStep
    \/ VoteStepOf(TimedEmails)
    \/ ConfirmBeginStep
    \/ ConfirmSelectStep
    \/ ConfirmInsertStep
    \/ ConfirmUpdateStep
    \/ ConfirmCommitStep
    \/ ResultsStep

SpecCreate == Init /\ [][NextCreate]_vars

\* a poll that has received as many confirmed votes as its max_votes says:
\* the voters v1@b.co, v2@b.co, ... each confirmed a vote for its first option
DigitSeq == <<"0", "1", "2", "3", "4", "5", "6", "7", "8", "9">>

RECURSIVE Decimal(_)
Decimal(n) ==
    IF n < 10 THEN <<DigitSeq[n + 1]>>
    ELSE Decimal(n \div 10) \o <<DigitSeq[(n % 10) + 1]>>

VoterEmail(n) == <<"v">> \o Decimal(n) \o <<"@", "b", ".", "c", "o">>

FullPollVotes ==
    [n \in 1..DefaultMaxVotes |->
        [poll_id |-> PollIdSeq[1], email |-> VoterEmail(n), option_id |-> 1,
         confirmed |-> TRUE, ip_address |-> "203.0.113.7"]]

InitCap ==
    /\ now = 0
    /\ ticks = 0
    /\ calls = 0
    /\ polls = (PollIdSeq[1] :>
                  [question |-> <<"B", "e", "s", "t", " ", "l", "a", "n", "g", "?">>,
                   is_active |-> TRUE, max_votes |-> DefaultMaxVotes,
                   expire_date |-> PollLifetime])
    /\ options = << [poll_id |-> PollIdSeq[1], option_text |-> <<"G", "o">>,
                     votes |-> DefaultMaxVotes],
                    [poll_id |-> PollIdSeq[1], option_text |-> <<"R", "u", "s", "t">>,
                     votes |-> 0] >>
    /\ votes = FullPollVotes
    /\ rate_limits = NearLimit
    /\ mailbox = {}
    /\ resp = "none"
    /\ pc = [r \in Reqs |-> "idle"]
    /\ tok = [r \in Reqs |-> NoToken]
    /\ txn = [r \in Reqs |-> NoTxn]
    /\ page = NoPage
    /\ form = NoForm
    /\ checks = [q \in Reqs |-> NoCall]
    /\ log = <<>>

\* the vote and confirm_vote requests of one more voter, statement by
\* statement, on a database whose poll is full
NextCap ==
    \/ VoteStepOf(TimedEmails)
    \/ ConfirmBeginStep
    \/ ConfirmSelectStep
    \/ ConfirmInsertStep
    \/ ConfirmUpdateStep
    \/ ConfirmCommitStep

SpecCap == InitCap /\ [][NextCap]_vars

\* -------------------------------------------------------------- properties
\* the normalization of a voter's address: trim, then lowercase
TrimLower(s) == Lower(Strip(s))

\* the rows of vs for poll p and voter e
RowsOf(vs, p, e) == {i \in 1..Len(vs) : vs[i].poll_id = p /\ TrimLower(vs[i].email) = e}

\* C1: in every reachable state the votes relation holds at most one row per
\* (poll, normalized email) pair.
C1_OneVotePerVoter ==
    \A i \in 1..Len(votes) : \A j \in 1..Len(votes) :
        (/\ votes[i].poll_id = votes[j].poll_id
         /\ TrimLower(votes[i].email) = TrimLower(votes[j].email)) => i = j

\* a voter has one vote, holds two confirmation links in one poll, and the
\* confirmation that came second was answered "already voted"
C1_Witness ==
    /\ resp = "DuplicateAtConfirm"
    /\ \E t1 \in mailbox : \E t2 \in mailbox :
        /\ t1 # t2
        /\ t1.payload.poll_id = t2.payload.poll_id
        /\ t1.payload.email = t2.payload.email
        /\ Cardinality(RowsOf(votes, t1.payload.poll_id, t1.payload.email)) = 1

\* the counters of opts with one more vote on option o and no other change
OneMoreOn(opts, o) ==
    [i \in 1..Len(opts) |->
        [opts[i] EXCEPT !.votes = opts[i].votes + (IF i = o THEN 1 ELSE 0)]]

\* request r ends in this step
Ends(r) == pc[r] # "idle" /\ pc'[r] = "idle"

\* C2: of the confirm_vote requests for one (poll, email) whose statements
\* interleave, a request ends either as the only one that commits (no vote of
\* the voter before, exactly one after, one more vote on the option of its
\* token and on no other) or with the 'already voted' outcome, a vote of the
\* voter being committed and nothing changed; it never ends with an error.
C2_OneWinner ==
    [][\A r \in Reqs :
        Ends(r) =>
            LET p == tok[r].payload.poll_id
                e == tok[r].payload.email
                o == ToInt(tok[r].payload.option_id)
            IN  \/ /\ resp' = "Confirmed"
                   /\ RowsOf(votes, p, e) = {}
                   /\ Cardinality(RowsOf(votes', p, e)) = 1
                   /\ Len(votes') = Len(votes) + 1
                   /\ votes'[Len(votes')].option_id = o
                   /\ options' = OneMoreOn(options, o)
                \/ /\ resp' = "DuplicateAtConfirm"
                   /\ RowsOf(votes, p, e) # {}
                   /\ UNCHANGED <<votes, options>>]_vars

\* a request found no vote of its voter, and before its INSERT a concurrent
\* request with another token of the voter, naming another option, committed
C2_Witness ==
    \E r \in Reqs :
        /\ pc[r] = "insert"
        /\ \E i \in 1..Len(votes) :
            /\ votes[i].poll_id = tok[r].payload.poll_id
            /\ votes[i].email = tok[r].payload.email
            /\ votes[i].option_id # ToInt(tok[r].payload.option_id)
            /\ options[votes[i].option_id].votes = 1
            /\ options[ToInt(tok[r].payload.option_id)].votes = 0

\* the rows of vs that record the vote a token with payload d asks for
RowsFor(vs, d) ==
    {i \in 1..Len(vs) : /\ vs[i].poll_id = d.poll_id
                        /\ vs[i].email = d.email
                        /\ vs[i].option_id = ToInt(d.option_id)}

\* C3: confirming a valid, unexpired token yields exactly one persisted vote:
\* the confirmation that finds no vote of the voter reports Confirmed and
\* leaves exactly one row for the token; a confirmation of a token whose vote
\* is already persisted reports DuplicateAtConfirm and leaves the votes and
\* every option counter as they were.
C3_ConfirmIdempotent ==
    [][\A r \in Reqs :
        Ends(r) =>
            LET d == tok[r].payload
            IN  IF RowsFor(votes, d) = {} /\ votes' # votes
                THEN /\ resp' = "Confirmed"
                     /\ Cardinality(RowsFor(votes', d)) = 1
                     /\ options' = OneMoreOn(options, ToInt(d.option_id))
                ELSE /\ RowsFor(votes, d) # {} =>
                            /\ resp' = "DuplicateAtConfirm"
                            /\ Cardinality(RowsFor(votes', d)) = 1
                     /\ resp' # "Confirmed"
                     /\ UNCHANGED <<votes, options>>]_vars

\* the only token mailed was confirmed, and confirmed again: one vote, one
\* increment, and the second confirmation reported the duplicate
C3_Witness ==
    /\ resp = "DuplicateAtConfirm"
    /\ Cardinality(mailbox) = 1
    /\ \A r \in Reqs : pc[r] = "idle"
    /\ \E t \in mailbox :
        /\ Cardinality(RowsFor(votes, t.payload)) = 1
        /\ Len(votes) = 1
        /\ options[ToInt(t.payload.option_id)].votes = 1

\* the number of rows of vs that reference option i
VotesFor(vs, i) == Cardinality({k \in 1..Len(vs) : vs[k].option_id = i})

\* each option's counter equals the number of votes that reference it
CountersMatch == \A i \in 1..Len(options) : options[i].votes = VotesFor(votes, i)

\* C4: in every committed state each option's counter equals the number of
\* vote rows that reference the option, and a confirmation that fails between
\* its INSERT and its commit leaves neither the row nor the increment.
C4_AllOrNothing ==
    /\ []CountersMatch
    /\ [][\A r \in Reqs :
            (txn[r].open /\ ~txn'[r].open /\ resp' # "Confirmed")
                => UNCHANGED <<votes, options>>]_vars

\* a confirmation failed after the INSERT of a second vote in a poll that has
\* one committed vote
C4_Witness ==
    /\ resp = "Error"
    /\ Len(votes) = 1
    /\ \A r \in Reqs : pc[r] = "idle"
    /\ Cardinality(mailbox) >= 2

\* C5: every vote row was inserted by the confirmation of a token that a vote
\* request for the same poll, option and voter minted after all its checks
\* and that was mailed to the voter; vote and create_poll requests insert no
\* vote and increment no counter.
C5_OnlyByConfirmation ==
    /\ [](\A i \in 1..Len(votes) :
            \E t \in mailbox :
                /\ RowsFor(votes, t.payload) = {i}
                /\ t.payload.poll_id \in DOMAIN polls
                /\ ToInt(t.payload.option_id) \in 1..Len(options)
                /\ options[ToInt(t.payload.option_id)].poll_id = t.payload.poll_id
                /\ validate_email(t.payload.email)
                /\ t.payload.email = TrimLower(t.payload.email))
    /\ [][calls' # calls =>
            /\ votes' = votes
            /\ \A i \in 1..Len(options) : options'[i] = options[i]]_vars
    /\ [][votes' # votes =>
            \E r \in Reqs :
                /\ pc[r] = "commit" /\ pc'[r] = "idle"
                /\ tok[r] \in mailbox
                /\ votes' = Append(votes, votes'[Len(votes')])
                /\ RowsFor(votes', tok[r].payload) = {Len(votes')}]_vars

\* a vote is recorded while a second token, never confirmed, waits in the
\* voter's mail
C5_Witness ==
    /\ resp = "Confirmed"
    /\ Len(votes) = 1
    /\ \E t \in mailbox : RowsFor(votes, t.payload) = {1}
    /\ \E t \in mailbox : RowsFor(votes, t.payload) = {}

\* C6: a correctly signed token older than 3600 s is answered Expired, and
\* no vote is created and no counter changed; a correctly signed token of age
\* at most 3600 s, 3600 s included, is accepted and yields the payload it was
\* minted with.
C6_MaxAge ==
    [][\A r \in Reqs : \A t \in mailbox :
        ConfirmBegin(r, t) =>
            IF now - t.ts > 3600
            THEN /\ resp' = "Expired"
                 /\ pc'[r] = "idle"
                 /\ UNCHANGED <<polls, options, votes, txn>>
            ELSE /\ pc'[r] = "select"
                 /\ tok'[r].payload = t.payload
                 /\ t.payload.json]_vars

\* one link was answered Expired, and another is being confirmed at the age
\* of exactly 3600 s
C6_Witness ==
    /\ resp = "Expired"
    /\ \E r \in Reqs : pc[r] = "select" /\ now - tok[r].ts = 3600

\* C7: a token that does not verify (altered payload, altered or missing
\* signature, missing timestamp or separator, undecodable payload, another
\* salt) is answered Invalid, creates no vote, changes no counter, and never
\* ends the request in an unhandled error.
C7_InvalidToken ==
    [][\A r \in Reqs : \A t \in Tokens \ mailbox :
        ConfirmBegin(r, t) =>
            /\ resp' = "Invalid"
            /\ pc'[r] = "idle"
            /\ UNCHANGED <<polls, options, votes, txn>>]_vars

\* the votability gate: the poll exists, is active and is not past its
\* expire_date
Votable(p) ==
    /\ p \in DOMAIN polls
    /\ polls[p].is_active
    /\ now <= polls[p].expire_date

\* C8: a vote request for a poll that is missing, inactive or past its
\* expire_date mints no token and sends no mail; it is rejected (with
\* PollNotVotable once it is let through and its form is valid).
C8_GateAtInitiate ==
    [][\A ip \in Addrs : \A p \in PollIds : \A e \in TimedEmails : \A o \in RawOptionIds :
        (vote(ip, p, e, o) /\ ~Votable(p)) =>
            /\ mailbox' = mailbox
            /\ resp' \in {"RateLimited", "ValidationError", "PollNotVotable"}]_vars

\* C9: confirm_vote commits no vote for a poll that is inactive or past its
\* expire_date at the commit, also when the token was minted while the poll
\* was votable and is itself unexpired.
C9_GateAtCommit ==
    [][\A r \in Reqs :
        (/\ pc[r] = "commit" /\ pc'[r] = "idle" /\ votes' # votes
         /\ tok[r].payload.poll_id \in DOMAIN polls
         /\ tok[r].ts <= polls[tok[r].payload.poll_id].expire_date
         /\ now - tok[r].ts <= 3600)
            => Votable(tok[r].payload.poll_id)]_vars

\* C10: a create_poll, vote or confirm_vote request that ends with an outcome
\* other than Created or Confirmed leaves polls, options and votes unchanged;
\* a rate-limited request does nothing at all; a vote request leaves them
\* unchanged also when the mail is delivered, and the voter whose delivery
\* failed is no duplicate afterwards.
C10_ErrorPathsFrame ==
    [][/\ (calls' # calls /\ resp' # "Created")
            => UNCHANGED <<polls, options, votes>>
       /\ (calls' # calls /\ resp' = "RateLimited")
            => UNCHANGED <<polls, options, votes, mailbox, rate_limits>>
       /\ \A r \in Reqs : (Ends(r) /\ resp' # "Confirmed")
            => UNCHANGED <<polls, options, votes>>
       /\ (calls' = calls /\ \A r \in Reqs : pc'[r] = pc[r])
            => UNCHANGED <<polls, options, votes>>
       /\ \A ip \in Addrs : \A p \in PollIds : \A e \in TimedEmails : \A o \in RawOptionIds :
            vote(ip, p, e, o) =>
                /\ UNCHANGED <<polls, options, votes>>
                /\ resp' = "DeliveryFailed" => RowsOf(votes', p, TrimLower(e)) = {}]_vars

\* the mail of a vote request could not be sent: the poll has no vote, and
\* the voter holds no link
C10_Witness ==
    /\ resp = "DeliveryFailed"
    /\ DOMAIN polls # {}
    /\ votes = <<>>
    /\ mailbox = {}

\* the calls for key that returned True and ran within the span of
\* time_window seconds that starts at s
GrantsIn(key, s) ==
    {i \in 1..Len(log) : /\ log[i].key = key
                         /\ log[i].allowed
                         /\ s <= log[i].at
                         /\ log[i].end <= s + 300}

\* the row that counts for key at time t: none when it is missing or older
\* than the time window
LiveRow(table, key, t) ==
    IF key \in DOMAIN table /\ table[key].last_attempt >= t - 300
    THEN table[key]
    ELSE [attempt_count |-> 0, last_attempt |-> 0]

\* C11: for each key, at most 50 calls of check_rate_limit return True within
\* any span of 300 s, also when the statements of concurrent calls
\* interleave; and the calls made under one key leave the row that counts
\* for any other key as it is.
C11_RateLimit ==
    /\ [](\A key \in {log[i].key : i \in 1..Len(log)} :
          \A s \in {log[i].at : i \in 1..Len(log)} :
            Cardinality(GrantsIn(key, s)) <= 50)
    /\ [][log' # log =>
            \A key \in RateCallKeys :
                key # log'[Len(log')].key
                    => LiveRow(rate_limits', key, now) = LiveRow(rate_limits, key, now)]_vars

\* the calls for key in entries that returned True
Allowed(entries, key) ==
    {i \in 1..Len(entries) : entries[i].key = key /\ entries[i].allowed}

\* C20: a refused call changes neither the counter nor last_attempt of its
\* key, and a call that starts more than 300 s after the last allowed call
\* for its key returned is allowed and restarts the counter at 1, whatever
\* was refused in between.
C20_BlockIsTemporary ==
    [][(Len(log') = Len(log) + 1) =>
        LET e == log'[Len(log')]
        IN  /\ ~e.allowed => rate_limits' = rate_limits
            /\ (\A i \in Allowed(log, e.key) : e.at - log[i].end > 300)
                => /\ e.allowed
                   /\ rate_limits'[e.key] = [attempt_count |-> 1, last_attempt |-> e.at]]_vars

\* a client used up its 50 attempts, was refused when it tried again within
\* the window, and its call after the window was allowed as a first attempt
C20_Witness ==
    \E j \in 1..Len(log) :
        LET m == Len(log)
            k == log[j].key
        IN  /\ j < m
            /\ ~log[j].allowed
            /\ log[j].at > 0
            /\ log[m].key = k
            /\ log[m].allowed
            /\ log[m].at > log[j].at
            /\ Cardinality(GrantsIn(k, 0)) = 50
            /\ k \in DOMAIN rate_limits
            /\ rate_limits[k] = [attempt_count |-> 1, last_attempt |-> log[m].at]

\* exactly 12 characters, each a lower-case hexadecimal digit
WellShaped(id) ==
    /\ Len(id) = 12
    /\ \A i \in 1..Len(id) :
        id[i] \in {"0", "1", "2", "3", "4", "5", "6", "7", "8", "9",
                   "a", "b", "c", "d", "e", "f"}

\* C16: the poll view, the results view and vote answer MalformedId, without
\* a lookup, to an identifier that is not exactly 12 lower-case hexadecimal
\* characters, and the views answer NotFound to a well-shaped identifier of
\* no poll (a vote request may be refused earlier, by the rate limit or for
\* its form fields).
C16_MalformedId ==
    [][\A p \in RequestIds :
        /\ (poll(p) \/ results(p)) =>
            /\ ~WellShaped(p) => page'.outcome = "MalformedId"
            /\ (WellShaped(p) /\ p \notin DOMAIN polls) => page'.outcome = "NotFound"
        /\ \A ip \in Addrs : \A e \in TimedEmails : \A o \in RawOptionIds :
            (vote(ip, p, e, o) /\ ~WellShaped(p)) =>
                resp' \in {"RateLimited", "ValidationError", "MalformedId"}]_vars

\* rows lists exactly the options of poll p in opts, each once, with its text
\* and its counter
ListsOptionsOf(rows, opts, p) ==
    /\ {rows[i].id : i \in 1..Len(rows)} = {i \in 1..Len(opts) : opts[i].poll_id = p}
    /\ \A i \in 1..Len(rows) : \A j \in 1..Len(rows) : rows[i].id = rows[j].id => i = j
    /\ \A i \in 1..Len(rows) :
        /\ rows[i].votes = opts[rows[i].id].votes
        /\ rows[i].option_text = opts[rows[i].id].option_text

\* C17: the results view of a poll lists the poll's options with their
\* counters, by counter descending and, among equal counters, by option id
\* ascending; the list is thereby determined by the tables.
C17_TallyOrder ==
    [][\A p \in DOMAIN polls :
        results(p) =>
            /\ page'.outcome = "Results"
            /\ ListsOptionsOf(page'.options, options, p)
            /\ \A i \in 1..Len(page'.options) : \A j \in 1..Len(page'.options) :
                i < j =>
                    \/ page'.options[i].votes > page'.options[j].votes
                    \/ /\ page'.options[i].votes = page'.options[j].votes
                       /\ page'.options[i].id < page'.options[j].id]_vars

\* the results view of a poll with one vote listed the option created second
\* before the option created first, while another poll exists
C17_Witness ==
    /\ page.outcome = "Results"
    /\ Len(page.options) = 2
    /\ page.options[1].id > page.options[2].id
    /\ page.options[1].votes = 1
    /\ \E p \in DOMAIN polls : p # page.poll_id

\* the text o names an option of poll p
NamesOptionOf(o, p) ==
    /\ o # <<>>
    /\ \A i \in 1..Len(o) : o[i] \in {"0", "1", "2", "3", "4", "5", "6", "7", "8", "9"}
    /\ \E i \in 1..Len(options) : ToInt(o) = i /\ options[i].poll_id = p

\* C15: a vote request whose option is not an option of its poll mints no
\* token and, once it is let through with a valid form for an existing poll,
\* is answered InvalidOption; every vote row's option is an option of the
\* row's poll; and a confirmation increments no counter of another poll.
C15_OptionOfPoll ==
    /\ [](\A i \in 1..Len(votes) :
            /\ votes[i].option_id \in 1..Len(options)
            /\ options[votes[i].option_id].poll_id = votes[i].poll_id)
    /\ [][\A ip \in Addrs : \A p \in PollIds : \A e \in RawEmails : \A o \in RawOptionIds :
            (vote(ip, p, e, o) /\ ~NamesOptionOf(o, p)) =>
                /\ mailbox' = mailbox
                /\ resp' \in {"RateLimited", "ValidationError", "PollNotVotable",
                              "InvalidOption"}
                /\ (/\ p \in DOMAIN polls
                    /\ resp' \notin {"RateLimited", "ValidationError"})
                        => resp' = "InvalidOption"]_vars
    /\ [][\A r \in Reqs : \A i \in 1..Len(options) :
            (Ends(r) /\ options'[i].votes # options[i].votes)
                => options[i].poll_id = tok[r].payload.poll_id]_vars

\* two polls exist, and a vote for an option of the poll created second is
\* recorded and counted
C15_Witness ==
    /\ Cardinality(DOMAIN polls) = 2
    /\ \E i \in 1..Len(votes) :
        /\ votes[i].option_id > 2
        /\ options[votes[i].option_id].votes = 1
        /\ options[1].poll_id # votes[i].poll_id

\* the texts of a list, pairwise distinct (case-sensitive)
PairwiseDistinct(list) ==
    \A i \in 1..Len(list) : \A j \in 1..Len(list) : list[i] = list[j] => i = j

\* an option text of 2 to 200 characters
LengthValid(opt) == Len(Strip(opt)) >= 2 /\ Len(Strip(opt)) <= 200

\* a create_poll request was let through by the rate limit in this step: its
\* form is form', and its client's row of the endpoint was written
CreateServed ==
    \E ip \in Addrs :
        rate_limits'[<<ip, "create_poll">>] # rate_limits[<<ip, "create_poll">>]

\* C12: with all options length-valid, create_poll accepts a question of 10
\* characters and rejects one of 9, accepts 2 options and rejects 1, accepts
\* 10 and rejects 11, and rejects a repeated option text (case-sensitive);
\* a rejection stores no poll and no option.
C12_CreateBoundaries ==
    [][(CreateServed /\ \A i \in 1..Len(form'.options) : LengthValid(form'.options[i])) =>
            IF /\ Len(Strip(form'.question)) >= 10
               /\ Len(form'.options) >= 2
               /\ Len(form'.options) <= 10
               /\ PairwiseDistinct(form'.options)
            THEN /\ resp' \in {"Created", "Error"}
                 /\ resp' = "Created" =>
                        /\ Cardinality(DOMAIN polls') = Cardinality(DOMAIN polls) + 1
                        /\ Len(options') = Len(options) + Len(form'.options)
            ELSE /\ resp' = "ValidationError"
                 /\ UNCHANGED <<polls, options>>]_vars

\* a poll of 10 options was created, and the request after it, of 11
\* options, was rejected
C12_Witness ==
    /\ resp = "ValidationError"
    /\ Len(form.options) = 11
    /\ Len(options) = 10
    /\ Cardinality(DOMAIN polls) = 1

\* C13: create_poll answers ValidationError and stores nothing whenever a
\* submitted option is shorter than 2 or longer than 200 characters, however
\* many other submitted options are valid.
C13_OptionLength ==
    [][(CreateServed /\ \E i \in 1..Len(form'.options) : ~LengthValid(form'.options[i])) =>
            /\ resp' = "ValidationError"
            /\ UNCHANGED <<polls, options>>]_vars

\* the options of poll p in opts: id and text
OptionSet(opts, p) ==
    {<<i, opts[i].option_text>> : i \in {k \in 1..Len(opts) : opts[k].poll_id = p}}

\* C14: a create_poll request stores its poll with all its options or
\* nothing; each poll has between 2 and 10 options, pairwise distinct in
\* text and as many as the distinct length-valid options submitted; no step
\* adds an option to a poll or removes one; and the results view lists
\* exactly the poll's options.
C14_OptionsFixed ==
    /\ [](\A p \in DOMAIN polls :
            /\ Cardinality(OptionSet(options, p)) \in 2..10
            /\ \A x \in OptionSet(options, p) : \A y \in OptionSet(options, p) :
                x[2] = y[2] => x = y)
    /\ [][\A p \in DOMAIN polls :
            /\ p \in DOMAIN polls'
            /\ OptionSet(options', p) = OptionSet(options, p)
            /\ results(p) => ListsOptionsOf(page'.options, options, p)]_vars
    /\ [][CreateServed =>
            IF resp' = "Created"
            THEN \E p \in DOMAIN polls' \ DOMAIN polls :
                    /\ DOMAIN polls' = DOMAIN polls \cup {p}
                    /\ Len(options') = Len(options) + Cardinality(OptionSet(options', p))
                    /\ Cardinality(OptionSet(options', p))
                         = Cardinality({Strip(form'.options[i]) :
                                i \in {k \in 1..Len(form'.options) :
                                            LengthValid(form'.options[k])}})
            ELSE UNCHANGED <<polls, options>>]_vars

\* the counter the tally rows show for option i
TallyOf(rows, i) == LET k == CHOOSE k \in 1..Len(rows) : rows[k].id = i IN rows[k].votes

\* the addresses of a submitted form that are well-formed once normalized
WellFormedEmails == {e \in TimedEmails : validate_email(TrimLower(e))}

\* C18: the happy path.  A poll is votable as soon as create_poll has stored
\* it; a vote request for a votable poll with a valid email and an option
\* of the poll, from a voter without a vote, whose mail is delivered, is
\* answered TokenIssued and the voter holds the token; a confirm_vote of a
\* delivered token at most 1 hour old is accepted; and when it ends with no
\* vote of the voter confirmed in between, it ends Confirmed and the tally
\* shows one more vote on the chosen option and the same counters elsewhere.
C18_HappyPath ==
    [][/\ resp' = "Created" =>
            \A p \in DOMAIN polls' \ DOMAIN polls :
                /\ polls'[p].is_active
                /\ now' <= polls'[p].expire_date
                /\ Cardinality({i \in 1..Len(options') : options'[i].poll_id = p}) >= 2
       /\ \A ip \in Addrs : \A p \in DOMAIN polls : \A e \in WellFormedEmails :
            \A o \in RawOptionIds :
                (/\ vote(ip, p, e, o)
                 /\ Votable(p)
                 /\ NamesOptionOf(o, p)
                 /\ RowsOf(votes, p, TrimLower(e)) = {}
                 /\ resp' \notin {"RateLimited", "DeliveryFailed"}) =>
                    /\ resp' = "TokenIssued"
                    /\ \E t \in mailbox' :
                        /\ t.ts = now
                        /\ t.payload.poll_id = p
                        /\ t.payload.email = TrimLower(e)
                        /\ t.payload.option_id = o
       /\ \A r \in Reqs : \A t \in mailbox :
            (ConfirmBegin(r, t) /\ now - t.ts <= 3600) =>
                pc'[r] # "idle" /\ tok'[r] = t
       /\ \A r \in Reqs :
            LET p == tok[r].payload.poll_id
                e == tok[r].payload.email
                o == ToInt(tok[r].payload.option_id)
                before == ResultsOf(polls, options, p).options
                after == ResultsOf(polls', options', p).options
            IN  (Ends(r) /\ RowsOf(votes, p, e) = {}) =>
                    /\ resp' = "Confirmed"
                    /\ Cardinality(RowsOf(votes', p, e)) = 1
                    /\ ListsOptionsOf(after, options', p)
                    /\ \A k \in 1..Len(after) :
                        TallyOf(after, after[k].id) =
                            TallyOf(before, after[k].id)
                                + (IF after[k].id = o THEN 1 ELSE 0)]_vars

\* the scenario: a poll with the options Go and Rust, one vote for Go
\* confirmed with a token exactly 1 hour old, and the tally Go:1, Rust:0
C18_Witness ==
    /\ resp = "Confirmed"
    /\ now = 3600
    /\ Len(votes) = 1
    /\ \E p \in DOMAIN polls :
        LET rows == ResultsOf(polls, options, p).options
        IN  /\ Len(rows) = 2
            /\ rows[1].option_text = <<"G", "o">> /\ rows[1].votes = 1
            /\ rows[2].option_text = <<"R", "u", "s", "t">> /\ rows[2].votes = 0
            /\ \E t \in mailbox : t.ts = 0 /\ t.payload.poll_id = p

\* C19: in every reachable state the confirmed votes of a poll, and the sum
\* of its option counters, are at most the poll's max_votes.
C19_MaxVotesCap ==
    \A p \in DOMAIN polls :
        /\ Cardinality({i \in 1..Len(votes) : votes[i].poll_id = p /\ votes[i].confirmed})
                <= polls[p].max_votes
        /\ SumVotes(ResultsOf(polls, options, p).options) <= polls[p].max_votes

====
